---- MODULE Spec2Model ----
(***************************************************************************)
(* Model of the ospac data utilities:                                      *)
(*   split_compatibility_matrix.py  split_compatibility_matrix,            *)
(*                                  load_split_matrix                      *)
(*   monitor_progress.py            monitor_progress                       *)
(*                                                                         *)
(* A license identifier (a Python str) is a sequence of code points, so    *)
(* that sorted() is computed by Python's string order.  A JSON object read *)
(* from the input file is a sequence of <<key, entry>> pairs in insertion  *)
(* order.  A file of the output directory is absent (its name is not in    *)
(* the directory), open-for-write but not yet dumped (<<>>: not valid      *)
(* JSON), or holds one JSON value (<<value>>).                             *)
(***************************************************************************)
EXTENDS Integers, Sequences, FiniteSets, TLC

VARIABLES
    pc,             \* position of split_compatibility_matrix
    data,           \* the input document's "compatibility" object
    license_ids,    \* sorted(list(compatibility.keys()))
    chunk_size,     \* the chunk_size argument
    num_chunks,     \* math.ceil(total_licenses / chunk_size)
    chunk_idx,      \* the loop variable of the chunk loop
    index,          \* the index dictionary being built in memory
    indexFile,      \* output_dir/compatibility_index.json
    chunkFiles,     \* output_dir/compatibility_chunk_NNN.json, by name
    lpc,            \* position of load_split_matrix
    lpos,           \* position in index["chunks"] of the chunk being loaded
    full_matrix,    \* full_matrix["compatibility"]
    edits,          \* number of out-of-band changes made to the directory
    mpc,            \* position of monitor_progress
    progress_file,  \* data/generation_progress.json
    spdx_dir,       \* data/licenses/spdx: absent, or its number of *.yaml files
    printed         \* what the current monitor iteration has printed

splitVars == <<pc, data, license_ids, chunk_size, num_chunks, chunk_idx, index>>
dirVars == <<indexFile, chunkFiles>>
loadVars == <<lpc, lpos, full_matrix>>
monVars == <<mpc, progress_file, spdx_dir, printed>>
vars == <<splitVars, dirVars, loadVars, edits, monVars>>

-----------------------------------------------------------------------------
(* Bounds and input universes *)

MaxChunkSize == 3
MaxRerunChunkSize == 2
MaxEdits == 2
MaxYaml == 1

\* license identifiers: "\x01", "\x01\x02", "\x02" as code point sequences
LicenseIds == {<<1>>, <<1, 2>>, <<2>>}
\* opaque compatibility entries
Entries == {1, 2}

\* JSON objects {license_id: entry} with unique keys, in every insertion order
Documents ==
    {d \in UNION {[1..n -> LicenseIds \X Entries] : n \in 0..Cardinality(LicenseIds)} :
        \A i, j \in 1..Len(d) : d[i][1] = d[j][1] => i = j}

\* the documents of the runs that share one output directory
RerunIds == {<<1>>, <<2>>}
RerunDocuments == {d \in Documents : \A i \in 1..Len(d) : d[i][1] \in RerunIds}

\* Python's None / an absent value is <<>>, a present value v is <<v>>
None == <<>>

-----------------------------------------------------------------------------
(* Pure helpers of split_compatibility_matrix *)

\* str.__lt__: code point by code point, a proper prefix sorts first
RECURSIVE StrLess(_, _)
StrLess(a, b) ==
    IF a = <<>> THEN b # <<>>
    ELSE IF b = <<>> THEN FALSE
    ELSE IF a[1] # b[1] THEN a[1] < b[1]
    ELSE StrLess(Tail(a), Tail(b))

RECURSIVE Insert(_, _)
Insert(x, s) ==
    IF s = <<>> THEN <<x>>
    ELSE IF StrLess(x, s[1]) THEN <<x>> \o s
    ELSE <<s[1]>> \o Insert(x, Tail(s))

RECURSIVE InsertionSort(_)
InsertionSort(s) ==
    IF s = <<>> THEN <<>>
    ELSE Insert(s[Len(s)], InsertionSort(SubSeq(s, 1, Len(s) - 1)))

\* list(compatibility.keys()): the keys in insertion order
keys(d) == [i \in 1..Len(d) |-> d[i][1]]

KeySet(d) == {d[i][1] : i \in 1..Len(d)}

\* compatibility[license_id]
Lookup(d, k) == d[CHOOSE i \in 1..Len(d) : d[i][1] = k][2]

\* mutant: the keys are taken in insertion order, sorted() forgotten
sorted_Omitted(s) == s

\* sorted(list(compatibility.keys()))
sorted(s) == InsertionSort(s)

Min(a, b) == IF a <= b THEN a ELSE b

\* mutant: floor division, total_licenses // chunk_size
NumChunks_Floor(total, k) == total \div k

\* math.ceil(total_licenses / chunk_size)
NumChunks(total, k) == (total + k - 1) \div k

\* start_idx = chunk_idx * chunk_size
StartIdx(i, k) == i * k

\* end_idx = min((chunk_idx + 1) * chunk_size, total_licenses)
EndIdx(i, k, total) == Min((i + 1) * k, total)

\* mutant: the slice takes its end index too, s[a:b + 1]
Slice_Inclusive(s, a, b) == SubSeq(s, Min(a, Len(s)) + 1, Min(b + 1, Len(s)))

\* the Python slice s[a:b], for 0 <= a
Slice(s, a, b) == SubSeq(s, Min(a, Len(s)) + 1, Min(b, Len(s)))

\* the loop that fills chunk_data["compatibility"]
ChunkCompatibility(d, chunk_licenses) ==
    [l \in {chunk_licenses[j] : j \in 1..Len(chunk_licenses)} |-> Lookup(d, l)]

\* chunk_data
ChunkData(d, ids, i, k) ==
    LET chunk_licenses == Slice(ids, StartIdx(i, k), EndIdx(i, k, Len(ids)))
    IN  [chunk_id |-> i,
         start_index |-> StartIdx(i, k),
         end_index |-> EndIdx(i, k, Len(ids)),
         licenses |-> chunk_licenses,
         compatibility |-> ChunkCompatibility(d, chunk_licenses)]

\* the decimal digits of n, most significant first
RECURSIVE Digits(_)
Digits(n) == IF n < 10 THEN <<n>> ELSE Digits(n \div 10) \o <<n % 10>>

RECURSIVE ZeroPad(_, _)
ZeroPad(s, w) == IF Len(s) >= w THEN s ELSE ZeroPad(<<0>> \o s, w)

\* f"compatibility_chunk_{chunk_idx:03d}.json": the name is its NNN part
ChunkFileName(i) == ZeroPad(Digits(i), 3)

\* the descriptor appended to index["chunks"]
ChunkDescriptor(i, chunk_licenses) ==
    [chunk_id |-> i,
     file |-> ChunkFileName(i),
     start_license |-> IF chunk_licenses # <<>> THEN <<chunk_licenses[1]>> ELSE None,
     end_license |-> IF chunk_licenses # <<>>
                     THEN <<chunk_licenses[Len(chunk_licenses)]>> ELSE None,
     license_count |-> Len(chunk_licenses)]

\* the index dictionary before the chunk loop; "version" and "generated" are
\* copied through from the input and are left out
NewIndex(total, k) ==
    [total_licenses |-> total,
     chunk_size |-> k,
     num_chunks |-> NumChunks(total, k),
     chunks |-> <<>>]

\* open(path, 'w') then json.dump: the directory with `name` holding `content`
WriteFile(files, name, content) ==
    [n \in DOMAIN files \cup {name} |-> IF n = name THEN content ELSE files[n]]

NoFiles == [n \in {} |-> <<>>]
EmptyDict == [l \in {} |-> 0]
NoIndexFile == [exists |-> FALSE, json |-> <<>>]

-----------------------------------------------------------------------------
(* Pure helpers of load_split_matrix *)

\* mutant: a key already merged keeps its first value (setdefault)
DictUpdate_KeepFirst(a, b) ==
    [l \in DOMAIN a \cup DOMAIN b |-> IF l \in DOMAIN a THEN a[l] ELSE b[l]]

\* mutant: the chunk's mapping is assigned, not merged
DictUpdate_Assign(a, b) == b

\* dict.update
DictUpdate(a, b) ==
    [l \in DOMAIN a \cup DOMAIN b |-> IF l \in DOMAIN b THEN b[l] ELSE a[l]]

\* mutant: a chunk file that is missing is skipped
LoadChunkStep_SkipMissing(matrix, files, chunk_info) ==
    IF chunk_info.file \notin DOMAIN files
    THEN [status |-> "loading", matrix |-> matrix]
    ELSE IF files[chunk_info.file] = <<>>
    THEN [status |-> "JSONDecodeError", matrix |-> EmptyDict]
    ELSE [status |-> "loading",
          matrix |-> DictUpdate(matrix, files[chunk_info.file][1].compatibility)]

\* mutant: every chunk file found in the directory is merged, not only the
\* one the index lists
LoadChunkStep_Glob(matrix, files, chunk_info) ==
    IF chunk_info.file \notin DOMAIN files
    THEN [status |-> "FileNotFoundError", matrix |-> EmptyDict]
    ELSE IF files[chunk_info.file] = <<>>
    THEN [status |-> "JSONDecodeError", matrix |-> EmptyDict]
    ELSE LET own == DictUpdate(matrix, files[chunk_info.file][1].compatibility)
             others == {n \in DOMAIN files : files[n] # <<>>}
             found == UNION {DOMAIN files[n][1].compatibility : n \in others}
         IN  [status |-> "loading",
              matrix |-> [l \in DOMAIN own \cup found |->
                            IF l \in DOMAIN own THEN own[l]
                            ELSE files[CHOOSE n \in others :
                                     l \in DOMAIN files[n][1].compatibility][1]
                                     .compatibility[l]]]

\* one iteration of the "for chunk_info in index['chunks']" loop
LoadChunkStep(matrix, files, chunk_info) ==
    IF chunk_info.file \notin DOMAIN files
    THEN [status |-> "FileNotFoundError", matrix |-> EmptyDict]
    ELSE IF files[chunk_info.file] = <<>>
    THEN [status |-> "JSONDecodeError", matrix |-> EmptyDict]
    ELSE [status |-> "loading",
          matrix |-> DictUpdate(matrix, files[chunk_info.file][1].compatibility)]

\* open(index_path) and json.load
LoadIndexStatus(idx) ==
    IF ~idx.exists THEN "FileNotFoundError"
    ELSE IF idx.json = <<>> THEN "JSONDecodeError"
    ELSE "loading"

-----------------------------------------------------------------------------
(* split_compatibility_matrix *)

Running == {"chunk_open", "chunk_dump", "index_open", "index_dump", "stats"}
Stopped == {"idle", "done", "ZeroDivisionError", "interrupted"}

InitSplit ==
    /\ pc = "idle"
    /\ data = <<>>
    /\ license_ids = <<>>
    /\ chunk_size = 1
    /\ num_chunks = 0
    /\ chunk_idx = 0
    /\ index = NewIndex(0, 1)

InitDir ==
    /\ indexFile = NoIndexFile
    /\ chunkFiles = NoFiles

InitLoad ==
    /\ lpc = "idle"
    /\ lpos = 1
    /\ full_matrix = EmptyDict

ResetLoad ==
    /\ lpc' = "idle"
    /\ lpos' = 1
    /\ full_matrix' = EmptyDict

\* lines 26-56: load the input, sort the keys, size the run, start the index
Begin(d, k) ==
    /\ data' = d
    /\ license_ids' = sorted(keys(d))
    /\ chunk_size' = k
    /\ num_chunks' = NumChunks(Len(d), k)
    /\ index' = NewIndex(Len(d), k)
    /\ chunk_idx' = 0
    /\ pc' = IF NumChunks(Len(d), k) > 0 THEN "chunk_open" ELSE "index_open"
    /\ ResetLoad
    /\ UNCHANGED <<dirVars, edits, monVars>>

\* a run into an output directory that does not exist yet
FirstRun(d, k) ==
    /\ pc = "idle"
    /\ Begin(d, k)

\* a run into the output directory the earlier runs wrote to
NextRun(d, k) ==
    /\ pc \in Stopped
    /\ Begin(d, k)

\* line 80: open(chunk_path, 'w') creates or truncates the chunk file
OpenChunk ==
    /\ pc = "chunk_open"
    /\ chunkFiles' = WriteFile(chunkFiles, ChunkFileName(chunk_idx), <<>>)
    /\ pc' = "chunk_dump"
    /\ UNCHANGED <<data, license_ids, chunk_size, num_chunks, chunk_idx, index,
                   indexFile, loadVars, edits, monVars>>

\* lines 81-92: dump the chunk, append its descriptor, next iteration
DumpChunk ==
    /\ pc = "chunk_dump"
    /\ LET chunk_data == ChunkData(data, license_ids, chunk_idx, chunk_size)
       IN  /\ chunkFiles' = WriteFile(chunkFiles, ChunkFileName(chunk_idx), <<chunk_data>>)
           /\ index' = [index EXCEPT !.chunks =
                           Append(@, ChunkDescriptor(chunk_idx, chunk_data.licenses))]
    /\ chunk_idx' = chunk_idx + 1
    /\ pc' = IF chunk_idx + 1 < num_chunks THEN "chunk_open" ELSE "index_open"
    /\ UNCHANGED <<data, license_ids, chunk_size, num_chunks, indexFile,
                   loadVars, edits, monVars>>

\* line 96: open(index_path, 'w') creates or truncates the index file
OpenIndex ==
    /\ pc = "index_open"
    /\ indexFile' = [exists |-> TRUE, json |-> <<>>]
    /\ pc' = "index_dump"
    /\ UNCHANGED <<data, license_ids, chunk_size, num_chunks, chunk_idx, index,
                   chunkFiles, loadVars, edits, monVars>>

\* line 97: json.dump(index, f)
DumpIndex ==
    /\ pc = "index_dump"
    /\ indexFile' = [exists |-> TRUE, json |-> <<index>>]
    /\ pc' = "stats"
    /\ UNCHANGED <<data, license_ids, chunk_size, num_chunks, chunk_idx, index,
                   chunkFiles, loadVars, edits, monVars>>

\* lines 99-109: the size report; line 109 divides by num_chunks
SizeReport(n) == IF n = 0 THEN "ZeroDivisionError" ELSE "done"

Report ==
    /\ pc = "stats"
    /\ pc' = SizeReport(num_chunks)
    /\ UNCHANGED <<data, license_ids, chunk_size, num_chunks, chunk_idx, index,
                   dirVars, loadVars, edits, monVars>>

\* the process is terminated during the run
Interrupt ==
    /\ pc \in Running
    /\ pc' = "interrupted"
    /\ data' = <<>>
    /\ license_ids' = <<>>
    /\ chunk_size' = 1
    /\ num_chunks' = 0
    /\ chunk_idx' = 0
    /\ index' = NewIndex(0, 1)
    /\ UNCHANGED <<dirVars, loadVars, edits, monVars>>

-----------------------------------------------------------------------------
(* load_split_matrix *)

\* lines 122-133: read the index, start an empty matrix
LoadStart ==
    /\ pc \in Stopped
    /\ lpc = "idle"
    /\ lpc' = LoadIndexStatus(indexFile)
    /\ lpos' = 1
    /\ full_matrix' = EmptyDict
    /\ UNCHANGED <<splitVars, dirVars, edits, monVars>>

\* lines 136-142: read the next chunk file the index lists and merge it
LoadChunk ==
    /\ lpc = "loading"
    /\ lpos <= Len(indexFile.json[1].chunks)
    /\ LET r == LoadChunkStep(full_matrix, chunkFiles, indexFile.json[1].chunks[lpos])
       IN  /\ lpc' = r.status
           /\ full_matrix' = r.matrix
           /\ lpos' = IF r.status = "loading" THEN lpos + 1 ELSE lpos
    /\ UNCHANGED <<splitVars, dirVars, edits, monVars>>

\* line 144: return full_matrix
LoadReturn ==
    /\ lpc = "loading"
    /\ lpos > Len(indexFile.json[1].chunks)
    /\ lpc' = "returned"
    /\ UNCHANGED <<splitVars, dirVars, lpos, full_matrix, edits, monVars>>

-----------------------------------------------------------------------------
(* The directory load_split_matrix is given: files removed or edited by hand
   between a run and the load *)

Editable ==
    /\ pc \in {"done", "ZeroDivisionError"}
    /\ lpc = "idle"
    /\ edits < MaxEdits

\* a chunk file is deleted
RemoveChunkFile(n) ==
    /\ Editable
    /\ n \in DOMAIN chunkFiles
    /\ chunkFiles' = [m \in DOMAIN chunkFiles \ {n} |-> chunkFiles[m]]
    /\ edits' = edits + 1
    /\ UNCHANGED <<splitVars, indexFile, loadVars, monVars>>

\* the index file is deleted
RemoveIndexFile ==
    /\ Editable
    /\ indexFile.exists
    /\ indexFile' = NoIndexFile
    /\ edits' = edits + 1
    /\ UNCHANGED <<splitVars, chunkFiles, loadVars, monVars>>

\* an entry of a chunk file's compatibility object is added or changed
EditChunkEntry(n, l, e) ==
    /\ Editable
    /\ n \in DOMAIN chunkFiles
    /\ chunkFiles[n] # <<>>
    /\ LET c == chunkFiles[n][1]
           edited == [c EXCEPT !.compatibility =
                         [x \in DOMAIN c.compatibility \cup {l} |->
                             IF x = l THEN e ELSE c.compatibility[x]]]
       IN  /\ edited # c
           /\ chunkFiles' = [chunkFiles EXCEPT ![n] = <<edited>>]
    /\ edits' = edits + 1
    /\ UNCHANGED <<splitVars, indexFile, loadVars, monVars>>

-----------------------------------------------------------------------------
(* monitor_progress *)

\* what data/generation_progress.json can be: missing; there but not
\* readable; not JSON; a JSON array; a JSON object whose total_processed is
\* absent or a number and whose last_updated is absent, a string, null or a
\* number
ProgressFiles ==
    {[kind |-> k, total_processed |-> None, last_updated |-> "absent"] :
        k \in {"missing", "unreadable", "invalid", "array"}}
    \cup
    {[kind |-> "object", total_processed |-> t, last_updated |-> u] :
        t \in {None} \cup {<<n>> : n \in 0..MaxYaml},
        u \in {"absent", "string", "null", "number"}}

\* data/licenses/spdx: absent, or there with n *.yaml files
SpdxDirs == {None} \cup {<<n>> : n \in 0..MaxYaml}

\* the exceptions that derive from Exception
ExceptionClasses ==
    {"FileNotFoundError", "PermissionError", "JSONDecodeError",
     "AttributeError", "TypeError"}

\* mutant: the handler names the file and JSON errors only
Catches_ReadErrors(exc) ==
    exc \in {"FileNotFoundError", "PermissionError", "JSONDecodeError"}

\* line 31: except Exception
Catches(exc) == exc \in ExceptionClasses

\* lines 16-29, the body of the try: what it raises, or what it prints
TryBody(f, spdx) ==
    IF f.kind = "missing" THEN [raised |-> "FileNotFoundError", out |-> "nothing"]
    ELSE IF f.kind = "unreadable" THEN [raised |-> "PermissionError", out |-> "nothing"]
    ELSE IF f.kind = "invalid" THEN [raised |-> "JSONDecodeError", out |-> "nothing"]
    ELSE IF f.kind = "array" THEN [raised |-> "AttributeError", out |-> "nothing"]
    ELSE IF f.last_updated \in {"null", "number"}
    THEN [raised |-> "TypeError", out |-> "nothing"]
    ELSE LET total == IF f.total_processed = None THEN 0 ELSE f.total_processed[1]
         IN  [raised |-> "none",
              out |-> IF spdx # None /\ spdx[1] # total
                      THEN "progress and files" ELSE "progress"]

Polling == {"poll", "read", "sleep"}

InitMon ==
    /\ mpc = "poll"
    /\ progress_file \in ProgressFiles
    /\ spdx_dir \in SpdxDirs
    /\ printed = "nothing"

\* line 14 and lines 33-34: progress_file.exists()
Poll ==
    /\ mpc = "poll"
    /\ IF progress_file.kind = "missing"
       THEN mpc' = "sleep" /\ printed' = "waiting"
       ELSE mpc' = "read" /\ printed' = "nothing"
    /\ UNCHANGED <<splitVars, dirVars, loadVars, edits, progress_file, spdx_dir>>

\* lines 15-32: the try block and its handler
Read ==
    /\ mpc = "read"
    /\ LET r == TryBody(progress_file, spdx_dir)
       IN  IF r.raised = "none" THEN mpc' = "sleep" /\ printed' = r.out
           ELSE IF Catches(r.raised) THEN mpc' = "sleep" /\ printed' = "error"
           ELSE mpc' = r.raised /\ printed' = "traceback"
    /\ UNCHANGED <<splitVars, dirVars, loadVars, edits, progress_file, spdx_dir>>

\* line 36: time.sleep(5), then the next iteration
Sleep ==
    /\ mpc = "sleep"
    /\ mpc' = "poll"
    /\ printed' = "nothing"
    /\ UNCHANGED <<splitVars, dirVars, loadVars, edits, progress_file, spdx_dir>>

\* lines 39-42: KeyboardInterrupt ends monitor_progress
KeyboardInterrupt ==
    /\ mpc \in Polling
    /\ mpc' = "stopped"
    /\ printed' = "stopped"
    /\ UNCHANGED <<splitVars, dirVars, loadVars, edits, progress_file, spdx_dir>>

\* the generator writes, replaces or removes the progress file
ProgressFileChanges(f) ==
    /\ mpc \in Polling
    /\ f # progress_file
    /\ progress_file' = f
    /\ UNCHANGED <<splitVars, dirVars, loadVars, edits, mpc, spdx_dir, printed>>

\* the generator creates the license directory or adds a license file
SpdxDirChanges(s) ==
    /\ mpc \in Polling
    /\ s # spdx_dir
    /\ spdx_dir' = s
    /\ UNCHANGED <<splitVars, dirVars, loadVars, edits, mpc, progress_file, printed>>

Monitor ==
    \/ Poll
    \/ Read
    \/ Sleep

-----------------------------------------------------------------------------

Init ==
    /\ InitSplit
    /\ InitDir
    /\ InitLoad
    /\ edits = 0
    /\ mpc = "poll"
    /\ progress_file = [kind |-> "missing", total_processed |-> None,
                        last_updated |-> "absent"]
    /\ spdx_dir = None
    /\ printed = "nothing"

SplitSteps ==
    \/ OpenChunk
    \/ DumpChunk
    \/ OpenIndex
    \/ DumpIndex
    \/ Report

Split ==
    \/ SplitSteps
    \/ Interrupt

Load ==
    \/ LoadStart
    \/ LoadChunk
    \/ LoadReturn

\* one run into a fresh directory, then load_split_matrix
Next ==
    \/ \E d \in Documents, k \in 1..MaxChunkSize : FirstRun(d, k)
    \/ Split
    \/ Load

Spec == Init /\ [][Next]_vars

\* any number of runs into the same directory, load_split_matrix between them
NextRerun ==
    \/ \E d \in RerunDocuments, k \in 1..MaxRerunChunkSize : NextRun(d, k)
    \/ Split
    \/ Load

SpecRerun == Init /\ [][NextRerun]_vars

\* one uninterrupted run, then hand edits of the directory, then load_split_matrix
NextEdited ==
    \/ \E d \in RerunDocuments, k \in 1..MaxRerunChunkSize : FirstRun(d, k)
    \/ SplitSteps
    \/ \E n \in DOMAIN chunkFiles : RemoveChunkFile(n)
    \/ RemoveIndexFile
    \/ \E n \in DOMAIN chunkFiles, l \in RerunIds, e \in Entries : EditChunkEntry(n, l, e)
    \/ Load

SpecEdited == Init /\ [][NextEdited]_vars

\* monitor_progress beside the generator that writes the files it reads
InitMonitor ==
    /\ InitSplit
    /\ InitDir
    /\ InitLoad
    /\ edits = 0
    /\ InitMon

NextMonitor ==
    \/ Monitor
    \/ KeyboardInterrupt
    \/ \E f \in ProgressFiles : ProgressFileChanges(f)
    \/ \E s \in SpdxDirs : SpdxDirChanges(s)

\* the loop is the only thread: unless interrupted it takes its next step
SpecMonitor == InitMonitor /\ [][NextMonitor]_vars /\ WF_vars(Monitor)

-----------------------------------------------------------------------------
(* Properties of one run into a fresh directory (Spec) *)

Range(s) == {s[j] : j \in 1..Len(s)}

\* split_compatibility_matrix has written every chunk file and the index
Written == pc \in {"stats", "done", "ZeroDivisionError"}

\* the JSON value of the chunk file of chunk i
ChunkOf(i) == chunkFiles[ChunkFileName(i)][1]

RECURSIVE SumCounts(_)
SumCounts(descs) ==
    IF descs = <<>> THEN 0 ELSE descs[1].license_count + SumCounts(Tail(descs))

\* C1: after a run that completed, load_split_matrix returns a compatibility
\* mapping with exactly the keys of the input document's mapping and the
\* input's value for every key, for every chunk size.
C1_RoundTrip ==
    (pc = "done" /\ lpc = "returned") =>
        /\ DOMAIN full_matrix = KeySet(data)
        /\ \A l \in KeySet(data) : full_matrix[l] = Lookup(data, l)

\* a three-license document split into singleton chunks and loaded back
C1_Witness ==
    /\ pc = "done"
    /\ lpc = "returned"
    /\ chunk_size = 1
    /\ Len(data) = 3
    /\ \E i, j \in 1..3 : Lookup(data, keys(data)[i]) # Lookup(data, keys(data)[j])

\* C2: once a run has written its chunk files, each key of the input occurs
\* exactly once over all chunks' licenses sequences, no chunk lists an
\* identifier that is not a key of the input, and each chunk's compatibility
\* mapping has exactly the keys of its own licenses sequence.
C2_Partition ==
    Written =>
        /\ DOMAIN chunkFiles = {ChunkFileName(i) : i \in 0..(num_chunks - 1)}
        /\ \A l \in KeySet(data) :
              Cardinality({ij \in (0..(num_chunks - 1)) \X (1..Len(data)) :
                              /\ ij[2] <= Len(ChunkOf(ij[1]).licenses)
                              /\ ChunkOf(ij[1]).licenses[ij[2]] = l}) = 1
        /\ \A i \in 0..(num_chunks - 1) :
              /\ Range(ChunkOf(i).licenses) \subseteq KeySet(data)
              /\ DOMAIN ChunkOf(i).compatibility = Range(ChunkOf(i).licenses)

\* three licenses in two chunks
C2_Witness ==
    /\ Written
    /\ Len(data) = 3
    /\ chunk_size = 2
    /\ Len(ChunkOf(0).licenses) = 2
    /\ Len(ChunkOf(1).licenses) = 1

\* C3: the index of a run on N keys with chunk size k has num_chunks =
\* ceil(N / k) and num_chunks descriptors; every chunk but the last counts k
\* licenses, the last counts N - k * (num_chunks - 1), which is not zero, and
\* the counts add up to N, which is the index's total_licenses.
C3_Counts ==
    Written =>
        LET ix == indexFile.json[1]
            N == Len(data)
        IN  /\ ix.num_chunks * chunk_size >= N
            /\ (ix.num_chunks - 1) * chunk_size < N
            /\ ix.num_chunks >= 0
            /\ Len(ix.chunks) = ix.num_chunks
            /\ \A i \in 1..(ix.num_chunks - 1) : ix.chunks[i].license_count = chunk_size
            /\ ix.num_chunks > 0 =>
                  /\ ix.chunks[ix.num_chunks].license_count
                        = N - chunk_size * (ix.num_chunks - 1)
                  /\ ix.chunks[ix.num_chunks].license_count > 0
            /\ SumCounts(ix.chunks) = N
            /\ ix.total_licenses = N

\* a last chunk shorter than the chunk size
C3_Witness ==
    /\ Written
    /\ Len(data) = 3
    /\ chunk_size = 2
    /\ indexFile.json[1].num_chunks = 2
    /\ indexFile.json[1].chunks[2].license_count = 1

\* C4: the chunks a run writes are those of every document with the same key
\* set, whatever its insertion order: the same licenses, start_index and
\* end_index per chunk and the same descriptors.  Each chunk's licenses
\* ascend, start_license and end_license are its first and last, and every
\* license of a chunk sorts before every license of the next chunk.
C4_Determinism ==
    Written =>
        /\ \A d2 \in Documents : KeySet(d2) = KeySet(data) =>
              \A i \in 0..(num_chunks - 1) :
                 LET c2 == ChunkData(d2, sorted(keys(d2)), i, chunk_size)
                 IN  /\ c2.licenses = ChunkOf(i).licenses
                     /\ c2.start_index = ChunkOf(i).start_index
                     /\ c2.end_index = ChunkOf(i).end_index
                     /\ ChunkDescriptor(i, c2.licenses) = indexFile.json[1].chunks[i + 1]
        /\ \A i \in 0..(num_chunks - 1) :
              LET ls == ChunkOf(i).licenses
                  desc == indexFile.json[1].chunks[i + 1]
              IN  /\ \A a, b \in 1..Len(ls) : a < b => StrLess(ls[a], ls[b])
                  /\ ls # <<>>
                  /\ desc.chunk_id = i
                  /\ desc.start_license = <<ls[1]>>
                  /\ desc.end_license = <<ls[Len(ls)]>>
                  /\ i + 1 < num_chunks =>
                        \A x \in Range(ls), y \in Range(ChunkOf(i + 1).licenses) :
                            StrLess(x, y)

\* a document whose keys were inserted out of order, split into two chunks
C4_Witness ==
    /\ Written
    /\ Len(data) = 3
    /\ chunk_size = 2
    /\ keys(data) # license_ids
    /\ StrLess(keys(data)[3], keys(data)[1])

\* C5: a run on a document with no compatibility keys ends without an error,
\* writes no chunk file and an index with num_chunks = 0 and chunks = [],
\* and load_split_matrix then returns an empty mapping.
C5_EmptyInput ==
    (pc \in {"done", "ZeroDivisionError"} /\ data = <<>>) =>
        /\ pc = "done"
        /\ chunkFiles = NoFiles
        /\ indexFile.json # <<>>
        /\ indexFile.json[1].num_chunks = 0
        /\ indexFile.json[1].chunks = <<>>
        /\ lpc = "returned" => full_matrix = EmptyDict

-----------------------------------------------------------------------------
(* Properties of runs that share one output directory (SpecRerun) *)

LoadEnded == {"returned", "FileNotFoundError", "JSONDecodeError"}

\* C6: a run that is interrupted before it completes leaves the directory
\* without compatibility_index.json, whatever the directory held before, so
\* that load_split_matrix fails with the index-missing error.  Stated for the
\* runs interrupted in their chunk loop, before the index file is opened.
C6_TornState ==
    [][(pc \in {"chunk_open", "chunk_dump"} /\ pc' = "interrupted")
          => ~indexFile'.exists]_vars

\* C10: after the most recent run has written its index, whatever earlier
\* runs (completed, failed or interrupted) left in the directory,
\* load_split_matrix returns exactly the keys and values of the most recent
\* run's input document.
C10_LastRunWins ==
    (pc \in {"done", "ZeroDivisionError"} /\ lpc = "returned") =>
        /\ DOMAIN full_matrix = KeySet(data)
        /\ \A l \in KeySet(data) : full_matrix[l] = Lookup(data, l)

\* the directory still holds a chunk file of an earlier run that the current
\* index does not list, with a key the latest document lacks
C10_Witness ==
    /\ pc = "done"
    /\ lpc = "returned"
    /\ Cardinality(DOMAIN chunkFiles) > num_chunks
    /\ \E n \in DOMAIN chunkFiles :
          /\ chunkFiles[n] # <<>>
          /\ \E l \in DOMAIN chunkFiles[n][1].compatibility : l \notin KeySet(data)

-----------------------------------------------------------------------------
(* Properties of load_split_matrix on a hand-edited directory (SpecEdited) *)

\* the chunk descriptors of the index file
Listed == indexFile.json[1].chunks

MissingAt == {i \in 1..Len(Listed) : Listed[i].file \notin DOMAIN chunkFiles}

\* C7: load_split_matrix ends with the not-found error, and no document, when
\* the index file is absent or a chunk file the index lists is absent; the
\* chunk files are read in index order, so it ends at the first missing one.
C7_MissingFiles ==
    lpc \in LoadEnded =>
        /\ ~indexFile.exists => lpc = "FileNotFoundError"
        /\ (indexFile.exists /\ MissingAt # {}) =>
              /\ lpc = "FileNotFoundError"
              /\ full_matrix = EmptyDict
              /\ \A i \in MissingAt : lpos <= i
              /\ lpos \in MissingAt
        /\ lpc = "FileNotFoundError" => (~indexFile.exists \/ MissingAt # {})

\* the first listed chunk file is there and was read, the second is missing
C7_Witness ==
    /\ lpc = "FileNotFoundError"
    /\ indexFile.exists
    /\ Len(Listed) = 2
    /\ MissingAt = {2}
    /\ lpos = 2

\* C9: when load_split_matrix returns, every key of a listed chunk file is in
\* the result with the value of the last listed chunk file that has the key,
\* also when two chunk files have the same key; nothing else is in the result.
C9_LastWriteWins ==
    lpc = "returned" =>
        LET compat(i) == chunkFiles[Listed[i].file][1].compatibility
            holders(l) == {i \in 1..Len(Listed) : l \in DOMAIN compat(i)}
            last(l) == CHOOSE i \in holders(l) : \A j \in holders(l) : j <= i
        IN  /\ DOMAIN full_matrix = UNION {DOMAIN compat(i) : i \in 1..Len(Listed)}
            /\ \A l \in DOMAIN full_matrix : full_matrix[l] = compat(last(l))[l]

\* two listed chunk files hold the same key with different values
C9_Witness ==
    /\ lpc = "returned"
    /\ Len(Listed) = 2
    /\ \E l \in RerunIds :
          /\ l \in DOMAIN chunkFiles[Listed[1].file][1].compatibility
          /\ l \in DOMAIN chunkFiles[Listed[2].file][1].compatibility
          /\ chunkFiles[Listed[1].file][1].compatibility[l]
                # chunkFiles[Listed[2].file][1].compatibility[l]

-----------------------------------------------------------------------------
(* Properties of monitor_progress (SpecMonitor) *)

\* C8: no state of the progress file ends the loop: monitor_progress is
\* polling or was stopped by an interrupt, an iteration that reaches its sleep
\* has printed a message, and unless interrupted the loop polls again and
\* again.
C8_NeverStops ==
    /\ [](mpc \in Polling \cup {"stopped"})
    /\ [](mpc = "sleep" => printed \in {"waiting", "error", "progress",
                                         "progress and files"})
    /\ []<>(mpc \in {"poll", "stopped"})

\* an iteration whose try block raised something other than a read or parse
\* error has printed the error and sleeps
C8_Witness ==
    /\ mpc = "sleep"
    /\ printed = "error"
    /\ TryBody(progress_file, spdx_dir).raised \in {"AttributeError", "TypeError"}

====
